---- MODULE Spec2Model ----
(***************************************************************************)
(* Model of compare50/html_renderer/renderer.py: the fragment slicer, the  *)
(* renderer bookkeeping (fragment ids, character counts, cross-reference   *)
(* index) and the top-level render loop.                                   *)
(***************************************************************************)
EXTENDS Integers, Sequences, FiniteSets, TLC

\* ------------------------------------------------------------------------
\* Bounds
\* ------------------------------------------------------------------------
MaxLen == 4         \* longest file text
MaxSpans == 2       \* longest span list handed to fragmentize
MaxFileLen == 2     \* longest text of a matched file of a submission
MaxResults == 2     \* most results in one bucket
MaxRenderResults == 3  \* most results handed to render

\* ------------------------------------------------------------------------
\* Values
\* ------------------------------------------------------------------------
NL == "\n"
Chars == {"a", NL}

RECURSIVE SeqsUpTo(_, _)
SeqsUpTo(S, n) ==
    IF n = 0 THEN {<<>>}
    ELSE LET shorter == SeqsUpTo(S, n - 1)
         IN  shorter \cup {Append(q, x) : q \in {r \in shorter : Len(r) = n - 1}, x \in S}

Texts == SeqsUpTo(Chars, MaxLen)

\* Offsets a span may carry; -1 and MaxLen + 1 only occur in malformed spans.
Offsets == -1 .. (MaxLen + 1)

Span(f, s, e) == [file |-> f, start |-> s, end |-> e]

\* Spans of file f that satisfy 0 <= start <= end <= n.
ValidSpans(f, n) == {sp \in [file : {f}, start : 0 .. n, end : 0 .. n] : sp.start <= sp.end}

AllSpans(f) == [file : {f}, start : Offsets, end : Offsets]

IsValidSpan(sp, n) == 0 <= sp.start /\ sp.start <= sp.end /\ sp.end <= n

\* ------------------------------------------------------------------------
\* Python helpers
\* ------------------------------------------------------------------------
\* Index normalisation of content[a:b].
PyIndex(i, n) ==
    IF i < 0 THEN (IF i + n < 0 THEN 0 ELSE i + n)
    ELSE IF i > n THEN n ELSE i

PySlice(s, a, b) ==
    LET lo == PyIndex(a, Len(s))
        hi == PyIndex(b, Len(s))
    IN  IF lo >= hi THEN <<>> ELSE SubSeq(s, lo + 1, hi)

\* str.splitlines(True): lines with their line ends kept.
RECURSIVE splitlines(_)
splitlines(s) ==
    IF s = <<>> THEN <<>>
    ELSE LET nls == {i \in 1 .. Len(s) : s[i] = NL}
         IN  IF nls = {} THEN <<s>>
             ELSE LET k == CHOOSE i \in nls : \A j \in nls : i <= j
                  IN  <<SubSeq(s, 1, k)>> \o splitlines(SubSeq(s, k + 1, Len(s)))

RECURSIVE Flatten(_)
Flatten(ls) == IF ls = <<>> THEN <<>> ELSE Head(ls) \o Flatten(Tail(ls))

\* sorted(set of integers)
RECURSIVE SortedMarks(_)
SortedMarks(S) ==
    IF S = {} THEN <<>>
    ELSE LET m == CHOOSE x \in S : \A y \in S : x <= y
         IN  <<m>> \o SortedMarks(S \ {m})

SpanLen(sp) == sp.end - sp.start

\* sorted(fragment_spans, key=lambda span: span.end - span.start, reverse=True);
\* the order among spans of equal length is the set's iteration order.
RECURSIVE SortedByLen(_)
SortedByLen(S) ==
    IF S = {} THEN <<>>
    ELSE LET w == CHOOSE x \in S : \A y \in S : SpanLen(x) >= SpanLen(y)
         IN  <<w>> \o SortedByLen(S \ {w})

Range(q) == {q[i] : i \in 1 .. Len(q)}

\* ------------------------------------------------------------------------
\* Fragment and _FragmentSlicer
\* ------------------------------------------------------------------------
\* Fragment(content, spans); start_mark and mark are the locals of the loop
\* in slice that delimit the fragment, kept to state the range properties.
Fragment(content, spans, start_mark, mark) ==
    [content |-> splitlines(content), spans |-> spans,
     start_mark |-> start_mark, mark |-> mark]

NewSlicer ==
    [slicing_marks |-> {},
     start_to_spans |-> [m \in Offsets |-> {}],
     end_to_spans |-> [m \in Offsets |-> {}]]

add_span(sl, span) ==
    [slicing_marks |-> sl.slicing_marks \cup {span.start, span.end},
     start_to_spans |-> [sl.start_to_spans EXCEPT ![span.start] = @ \cup {span}],
     end_to_spans |-> [sl.end_to_spans EXCEPT ![span.end] = @ \cup {span}]]

\* The list "spans" of slice: one active set per segment.
RECURSIVE ActiveSets_removeFirst(_, _, _)
ActiveSets_removeFirst(sl, marks, prev) ==
    IF marks = <<>> THEN <<>>
    ELSE LET cur == (prev \ sl.end_to_spans[Head(marks)]) \cup sl.start_to_spans[Head(marks)]
         IN  <<cur>> \o ActiveSets_removeFirst(sl, Tail(marks), cur)

RECURSIVE ActiveSets(_, _, _)
ActiveSets(sl, marks, prev) ==
    IF marks = <<>> THEN <<>>
    ELSE LET cur == (prev \cup sl.start_to_spans[Head(marks)]) \ sl.end_to_spans[Head(marks)]
         IN  <<cur>> \o ActiveSets(sl, Tail(marks), cur)

\* slice without the step that extends the last slice to the end of the file.
slice_noLastMark(sl, content) ==
    LET marks0 == sl.slicing_marks \ {0}
    IN  IF marks0 = {} THEN <<Fragment(content, <<>>, 0, Len(content))>>
        ELSE
          LET marks == SortedMarks(marks0)
              first == sl.start_to_spans[0] \ sl.end_to_spans[0]
              active == <<first>> \o ActiveSets(sl, marks, first)
          IN  [i \in 1 .. Len(marks) |->
                 LET start_mark == IF i = 1 THEN 0 ELSE marks[i - 1]
                 IN  Fragment(PySlice(content, start_mark, marks[i]),
                              SortedByLen(active[i]), start_mark, marks[i])]

slice(sl, content) ==
    LET marks0 == sl.slicing_marks \ {0}
    IN  IF marks0 = {} THEN <<Fragment(content, <<>>, 0, Len(content))>>
        ELSE
          LET slicing_marks == SortedMarks(marks0)
              first == sl.start_to_spans[0] \ sl.end_to_spans[0]
              spans == <<first>> \o ActiveSets(sl, slicing_marks, first)
              marks == IF slicing_marks[Len(slicing_marks)] < Len(content)
                       THEN Append(slicing_marks, Len(content))
                       ELSE slicing_marks
              n == IF Len(spans) < Len(marks) THEN Len(spans) ELSE Len(marks)
          IN  [i \in 1 .. n |->
                 LET start_mark == IF i = 1 THEN 0 ELSE marks[i - 1]
                 IN  Fragment(PySlice(content, start_mark, marks[i]),
                              SortedByLen(spans[i]), start_mark, marks[i])]

RECURSIVE AddAll(_, _)
AddAll(sl, spans) ==
    IF spans = <<>> THEN sl ELSE AddAll(add_span(sl, Head(spans)), Tail(spans))

fragmentize(content, spans) == slice(AddAll(NewSlicer, spans), content)

\* ------------------------------------------------------------------------
\* IdStore, HTML_Fragment, HTML_File, HTML_Submission, Data, _Renderer
\* ------------------------------------------------------------------------
\* Iteration order of a set (arbitrary but fixed).
RECURSIVE SetToSeq(_)
SetToSeq(S) ==
    IF S = {} THEN <<>>
    ELSE LET x == CHOOSE y \in S : TRUE IN <<x>> \o SetToSeq(S \ {x})

\* IdStore: the objects seen so far, in order of first sight; the id of an
\* object is its position, counted from 0.
IdStore_new == <<>>

IdStore_add(store, obj) ==
    IF obj \in Range(store) THEN store ELSE Append(store, obj)

IdStore_get(store, obj) ==
    (CHOOSE i \in 1 .. Len(store) : store[i] = obj) - 1

RECURSIVE IdStore_addAll(_, _)
IdStore_addAll(store, objs) ==
    IF objs = <<>> THEN store
    ELSE IdStore_addAll(IdStore_add(store, Head(objs)), Tail(objs))

NewRenderer ==
    [frag_id_counter |-> -1, span_id_store |-> IdStore_new, group_id_store |-> IdStore_new]

\* f"frag{n}"
frag_id(n) == <<"frag", n>>

HTML_Fragment(id, lines, is_ignored, is_grouped, fspans) ==
    [id |-> id, content |-> lines, is_ignored |-> is_ignored,
     is_grouped |-> is_grouped, spans |-> fspans]

\* html_fragments, started with the counter at value counter.
html_fragments(counter, text, fspans, ignored_spans) ==
    LET frs == fragmentize(text, fspans)
    IN  [i \in 1 .. Len(frs) |->
           HTML_Fragment(frag_id(counter + i), frs[i].content,
                         \E sp \in Range(frs[i].spans) : sp \in ignored_spans,
                         \E sp \in Range(frs[i].spans) : sp \notin ignored_spans,
                         frs[i].spans)]

RECURSIVE SumLens(_)
SumLens(lines) == IF lines = <<>> THEN 0 ELSE Len(Head(lines)) + SumLens(Tail(lines))

\* The counting loop of html_files with the test on is_ignored left out.
RECURSIVE CountChars_ignoredCounted(_)
CountChars_ignoredCounted(html_frags) ==
    IF html_frags = <<>> THEN [num_chars |-> 0, num_chars_matched |-> 0]
    ELSE LET frag == Head(html_frags)
             r == CountChars_ignoredCounted(Tail(html_frags))
             n == SumLens(frag.content)
         IN  [num_chars |-> r.num_chars + (IF frag.is_ignored THEN 0 ELSE n),
              num_chars_matched |-> r.num_chars_matched + (IF frag.is_grouped THEN n ELSE 0)]

\* The counting loop of html_files.
RECURSIVE CountChars(_)
CountChars(html_frags) ==
    IF html_frags = <<>> THEN [num_chars |-> 0, num_chars_matched |-> 0]
    ELSE LET frag == Head(html_frags)
             r == CountChars(Tail(html_frags))
             n == SumLens(frag.content)
         IN  IF frag.is_ignored THEN r
             ELSE [num_chars |-> r.num_chars + n,
                   num_chars_matched |-> r.num_chars_matched + (IF frag.is_grouped THEN n ELSE 0)]

HTML_File(name, frags, num_chars_matched, num_chars) ==
    [name |-> name, fragments |-> frags,
     num_chars_matched |-> num_chars_matched, num_chars |-> num_chars]

\* html_files over the files not yet rendered; returns the HTML_Files and the
\* fragment counter after them.
RECURSIVE html_files(_, _, _, _, _)
html_files(counter, files, text_of, file_to_spans, ignored_spans) ==
    IF files = <<>> THEN [files |-> <<>>, counter |-> counter]
    ELSE LET file == Head(files)
             html_frags == html_fragments(counter, text_of[file], file_to_spans[file], ignored_spans)
             c == CountChars(html_frags)
             r == html_files(counter + Len(html_frags), Tail(files), text_of,
                             file_to_spans, ignored_spans)
         IN  [files |-> <<HTML_File(file, html_frags, c.num_chars_matched, c.num_chars)>> \o r.files,
              counter |-> r.counter]

RECURSIVE SumField(_, _)
SumField(fs, matched) ==
    IF fs = <<>> THEN 0
    ELSE (IF matched THEN Head(fs).num_chars_matched ELSE Head(fs).num_chars)
         + SumField(Tail(fs), matched)

HTML_Submission(name, files, num_chars_matched, num_chars) ==
    [name |-> name, files |-> files,
     num_chars_matched |-> num_chars_matched, num_chars |-> num_chars]

\* html_submission; returns the HTML_Submission and the counter after it.
html_submission(counter, submission, text_of, file_to_spans, ignored_spans) ==
    LET r == html_files(counter, submission.files, text_of, file_to_spans, ignored_spans)
    IN  [sub |-> HTML_Submission(submission.path, r.files,
                                 SumField(r.files, TRUE), SumField(r.files, FALSE)),
         counter |-> r.counter]

\* round(x) of Python 3 for x = num / den, den > 0: to nearest, ties to even.
PyRound(num, den) ==
    LET q == num \div den
        r == num % den
    IN  IF 2 * r < den THEN q
        ELSE IF 2 * r > den THEN q + 1
        ELSE IF q % 2 = 0 THEN q ELSE q + 1

\* HTML_File.percentage and HTML_Submission.percentage.
percentage(obj) ==
    IF obj.num_chars = 0 THEN 0
    ELSE PyRound(obj.num_chars_matched * 100, obj.num_chars)

RECURSIVE AllFragments(_)
AllFragments(files) ==
    IF files = <<>> THEN <<>> ELSE Head(files).fragments \o AllFragments(Tail(files))

RECURSIVE ConcatAll(_)
ConcatAll(qs) == IF qs = <<>> THEN <<>> ELSE Head(qs) \o ConcatAll(Tail(qs))

\* Spans whose ids data asks for in its first loop, in order.
FragmentSpanSeq(html_frags, ignored_spans) ==
    ConcatAll([i \in 1 .. Len(html_frags) |->
        IF html_frags[i].is_grouped
        THEN SelectSeq(html_frags[i].spans, LAMBDA sp : sp \notin ignored_spans)
        ELSE <<>>])

\* (span, group) pairs in the order of the second loop of data.
GroupSpanSeq(groups) ==
    ConcatAll([i \in 1 .. Len(groups) |->
        LET ss == SetToSeq(groups[i].spans)
        IN  [j \in 1 .. Len(ss) |-> [span |-> ss[j], group |-> groups[i]]]])

\* span_to_group after the pairs, keeping the first assignment to a key.
RECURSIVE AssignAll_keepFirst(_, _, _, _)
AssignAll_keepFirst(dict, pairs, spanStore, groupStore) ==
    IF pairs = <<>> THEN dict
    ELSE LET k == IdStore_get(spanStore, Head(pairs).span)
             v == IdStore_get(groupStore, Head(pairs).group)
         IN  AssignAll_keepFirst(dict @@ (k :> v), Tail(pairs), spanStore, groupStore)

\* span_to_group after the pairs: a later assignment to a key replaces the
\* earlier one.
RECURSIVE AssignAll(_, _, _, _)
AssignAll(dict, pairs, spanStore, groupStore) ==
    IF pairs = <<>> THEN dict
    ELSE LET k == IdStore_get(spanStore, Head(pairs).span)
             v == IdStore_get(groupStore, Head(pairs).group)
             rest == [x \in DOMAIN dict \ {k} |-> dict[x]]
         IN  AssignAll((k :> v) @@ rest, Tail(pairs), spanStore, groupStore)

EmptyDict == [x \in {} |-> 0]

Data(span_to_group, fragment_to_spans) ==
    [span_to_group |-> span_to_group, fragment_to_spans |-> fragment_to_spans]

\* _Renderer.data; returns the Data and the renderer with its id stores.
data(rd, html_frags, groups, ignored_spans) ==
    LET pairs == GroupSpanSeq(groups)
        spanStore1 == IdStore_addAll(rd.span_id_store, FragmentSpanSeq(html_frags, ignored_spans))
        spanStore == IdStore_addAll(spanStore1, [i \in 1 .. Len(pairs) |-> pairs[i].span])
        groupStore == IdStore_addAll(rd.group_id_store, groups)
        grouped == {i \in 1 .. Len(html_frags) : html_frags[i].is_grouped}
        fragment_to_spans ==
            [id \in {html_frags[i].id : i \in grouped} |->
                LET i == CHOOSE j \in grouped : html_frags[j].id = id
                    kept == SelectSeq(html_frags[i].spans, LAMBDA sp : sp \notin ignored_spans)
                IN  [j \in 1 .. Len(kept) |-> IdStore_get(spanStore, kept[j])]]
    IN  [data |-> Data(AssignAll(EmptyDict, pairs, spanStore, groupStore), fragment_to_spans),
         renderer |-> [rd EXCEPT !.span_id_store = spanStore, !.group_id_store = groupStore]]

\* file_to_spans of _RenderTask.__call__: the spans of the groups, then the
\* ignored spans, by file.
BuildFileToSpans(result, files) ==
    LET pairs == GroupSpanSeq(result.groups)
        all == [i \in 1 .. Len(pairs) |-> pairs[i].span] \o SetToSeq(result.ignored_spans)
    IN  [f \in files |-> SelectSeq(all, LAMBDA sp : sp.file = f)]

\* ------------------------------------------------------------------------
\* render
\* ------------------------------------------------------------------------
\* sub_pair_to_results after the grouping loop, as the items of the dict in
\* insertion order.
RECURSIVE GroupByPair(_, _)
GroupByPair(dict, results) ==
    IF results = <<>> THEN dict
    ELSE LET result == Head(results)
             key == <<result.sub_a, result.sub_b>>
             at == {i \in 1 .. Len(dict) : dict[i].key = key}
         IN  IF at = {}
             THEN GroupByPair(Append(dict, [key |-> key, results |-> <<result>>]), Tail(results))
             ELSE LET i == CHOOSE j \in at : TRUE
                  IN  GroupByPair([dict EXCEPT ![i].results = Append(@, result)], Tail(results))

DictValues(dict) == [i \in 1 .. Len(dict) |-> dict[i].results]

\* key=lambda res: res[0].score
SortKey(res) == res[1].score

\* The sort without reverse=True.
RECURSIVE InsertAscending(_, _)
InsertAscending(sorted, res) ==
    IF sorted = <<>> THEN <<res>>
    ELSE IF SortKey(Head(sorted)) <= SortKey(res)
         THEN <<Head(sorted)>> \o InsertAscending(Tail(sorted), res)
         ELSE <<res>> \o sorted

\* Place of a new element in a list sorted in descending order, behind the
\* elements that compare equal (the sort is stable).
RECURSIVE InsertDescending(_, _)
InsertDescending(sorted, res) ==
    IF sorted = <<>> THEN <<res>>
    ELSE IF SortKey(Head(sorted)) >= SortKey(res)
         THEN <<Head(sorted)>> \o InsertDescending(Tail(sorted), res)
         ELSE <<res>> \o sorted

\* sorted(values, key=lambda res: res[0].score, reverse=True), onto acc.
RECURSIVE SortedByScore(_, _)
SortedByScore(acc, values) ==
    IF values = <<>> THEN acc
    ELSE SortedByScore(InsertDescending(acc, Head(values)), Tail(values))

\* The page _RenderTask.__call__ returns for a bucket.
RenderPage(results) == [page_of |-> results]

\* enumerate(results_per_sub_pair, 1)
Enumerate1(buckets) == [i \in 1 .. Len(buckets) |-> <<i, buckets[i]>>]

\* ------------------------------------------------------------------------
\* State
\* ------------------------------------------------------------------------
VARIABLES
    pc,           \* position of the operation being run
    \* fragmentize
    content,      \* text of the file being sliced
    spans,        \* span list handed to fragmentize
    todo,         \* spans not yet added to the slicer
    slicer,       \* the _FragmentSlicer
    fragments,    \* value returned by slice
    \* _RenderTask.__call__
    file_text,    \* text on disk of every file of the two submissions
    bucket,       \* "results": the results of one submission pair
    idx,          \* number of results of the bucket already rendered
    renderer,     \* the _Renderer of the result being rendered
    file_to_spans,
    sub_a,        \* HTML_Submission of the result being rendered
    sub_b,
    data_list,    \* "data"
    match_htmls,
    page,         \* the rendered page returned by the task
    \* render
    results_in,   \* the results of pass_to_results, in iteration order
    sub_pair_to_results,   \* the defaultdict, as its items in insertion order
    results_per_sub_pair,  \* the sorted buckets
    tasks,        \* the calls handed to the executor: argument and progress
    out_files,    \* match id -> content of match_<id>.html
    writes,       \* match id -> times match_<id>.html was written
    write_log,    \* match ids in the order their files were written
    index_written

slicerVars == <<content, spans, todo, slicer, fragments>>
taskVars == <<file_text, bucket, idx, renderer, file_to_spans, sub_a, sub_b,
              data_list, match_htmls, page>>
renderVars == <<results_in, sub_pair_to_results, results_per_sub_pair, tasks,
                out_files, writes, write_log, index_written>>
vars == <<pc, slicerVars, taskVars, renderVars>>

None == "None"

SlicerIdle ==
    /\ content = <<>>
    /\ spans = <<>>
    /\ todo = <<>>
    /\ slicer = NewSlicer
    /\ fragments = <<>>

TaskIdle ==
    /\ file_text = None
    /\ bucket = <<>>
    /\ idx = 0
    /\ renderer = None
    /\ file_to_spans = None
    /\ sub_a = None
    /\ sub_b = None
    /\ data_list = <<>>
    /\ match_htmls = <<>>
    /\ page = None

RenderIdle ==
    /\ results_in = <<>>
    /\ sub_pair_to_results = <<>>
    /\ results_per_sub_pair = <<>>
    /\ tasks = <<>>
    /\ out_files = EmptyDict
    /\ writes = EmptyDict
    /\ write_log = <<>>
    /\ index_written = FALSE

\* ------------------------------------------------------------------------
\* fragmentize over well-formed spans
\* ------------------------------------------------------------------------
F1 == "f1"

InitSlice ==
    /\ content \in Texts
    /\ spans \in SeqsUpTo(ValidSpans(F1, Len(content)), MaxSpans)
    /\ todo = spans
    /\ slicer = NewSlicer
    /\ fragments = <<>>
    /\ pc = "add"
    /\ TaskIdle
    /\ RenderIdle

AddSpan ==
    /\ pc = "add"
    /\ todo # <<>>
    /\ slicer' = add_span(slicer, Head(todo))
    /\ todo' = Tail(todo)
    /\ UNCHANGED <<content, spans, fragments, pc, taskVars, renderVars>>

Slice ==
    /\ pc = "add"
    /\ todo = <<>>
    /\ fragments' = slice(slicer, content)
    /\ pc' = "done"
    /\ UNCHANGED <<content, spans, todo, slicer, taskVars, renderVars>>

NextSlice == AddSpan \/ Slice

SpecSlice == InitSlice /\ [][NextSlice]_vars

\* fragmentize over span lists that hold a malformed span.
InitMalformed ==
    /\ content \in Texts
    /\ spans \in {q \in SeqsUpTo(AllSpans(F1), MaxSpans) :
                     \E i \in 1 .. Len(q) : ~IsValidSpan(q[i], Len(content))}
    /\ todo = spans
    /\ slicer = NewSlicer
    /\ fragments = <<>>
    /\ pc = "add"
    /\ TaskIdle
    /\ RenderIdle

SpecMalformed == InitMalformed /\ [][NextSlice]_vars

\* ------------------------------------------------------------------------
\* _RenderTask.__call__
\* ------------------------------------------------------------------------
A1 == "a1"
A2 == "a2"
B1 == "b1"
Files == {A1, A2, B1}
SubA == [path |-> "sub_a", files |-> <<A1, A2>>]
SubB == [path |-> "sub_b", files |-> <<B1>>]

Group(name, gspans) == [name |-> name, spans |-> gspans]
Result(groups, ignored_spans) == [groups |-> groups, ignored_spans |-> ignored_spans]

\* Inputs: a1 carries the matched and ignored spans (prefixes and suffixes of
\* its text), a2 is a file without matches, b1 is matched or ignored whole.
A1Texts == SeqsUpTo(Chars, MaxFileLen)
A2Texts == {<<>>, <<"a">>}
B1Text == <<"a", NL>>
Pool(n) == {Span(A1, 0, k) : k \in 1 .. n} \cup {Span(A1, k, n) : k \in 1 .. (n - 1)}
Roles == {"none", "g1", "g2", "both", "ignored"}
RolesB == {"none", "g1", "ignored"}

MakeResult(roleA, roleB) ==
    LET bspan == Span(B1, 0, Len(B1Text))
        g1 == {sp \in DOMAIN roleA : roleA[sp] \in {"g1", "both"}}
                \cup (IF roleB = "g1" THEN {bspan} ELSE {})
        g2 == {sp \in DOMAIN roleA : roleA[sp] \in {"g2", "both"}}
        ign == {sp \in DOMAIN roleA : roleA[sp] = "ignored"}
                \cup (IF roleB = "ignored" THEN {bspan} ELSE {})
    IN  Result(SelectSeq(<<Group("g1", g1), Group("g2", g2)>>, LAMBDA g : g.spans # {}), ign)

TaskStart ==
    /\ idx = 0
    /\ renderer = None
    /\ file_to_spans = None
    /\ sub_a = None
    /\ sub_b = None
    /\ data_list = <<>>
    /\ match_htmls = <<>>
    /\ page = None
    /\ pc = "loop"

\* One result, any assignment of roles to the spans.
InitRenderer ==
    /\ \E t1 \in A1Texts, t2 \in A2Texts :
         /\ file_text = (A1 :> t1 @@ A2 :> t2 @@ B1 :> B1Text)
         /\ bucket \in {<<MakeResult(ra, rb)>> : ra \in [Pool(Len(t1)) -> Roles], rb \in RolesB}
    /\ TaskStart
    /\ SlicerIdle
    /\ RenderIdle

\* Up to MaxResults results, each with one role for all its spans.
InitTask ==
    /\ \E t1 \in A1Texts, t2 \in A2Texts :
         /\ file_text = (A1 :> t1 @@ A2 :> t2 @@ B1 :> B1Text)
         /\ bucket \in SeqsUpTo({MakeResult([sp \in Pool(Len(t1)) |-> r], rb) :
                                    r \in Roles, rb \in RolesB}, MaxResults) \ {<<>>}
    /\ TaskStart
    /\ SlicerIdle
    /\ RenderIdle

\* Top of the loop body: a new _Renderer and file_to_spans.
StartResult ==
    /\ pc = "loop"
    /\ idx < Len(bucket)
    /\ renderer' = NewRenderer
    /\ file_to_spans' = BuildFileToSpans(bucket[idx + 1], Files)
    /\ pc' = "sub_a"
    /\ UNCHANGED <<renderVars, slicerVars, file_text, bucket, idx, sub_a, sub_b, data_list,
                   match_htmls, page>>

HtmlSubmissionA ==
    /\ pc = "sub_a"
    /\ LET r == html_submission(renderer.frag_id_counter, SubA, file_text,
                                file_to_spans, bucket[idx + 1].ignored_spans)
       IN  /\ sub_a' = r.sub
           /\ renderer' = [renderer EXCEPT !.frag_id_counter = r.counter]
    /\ pc' = "sub_b"
    /\ UNCHANGED <<renderVars, slicerVars, file_text, bucket, idx, file_to_spans, sub_b,
                   data_list, match_htmls, page>>

HtmlSubmissionB ==
    /\ pc = "sub_b"
    /\ LET r == html_submission(renderer.frag_id_counter, SubB, file_text,
                                file_to_spans, bucket[idx + 1].ignored_spans)
       IN  /\ sub_b' = r.sub
           /\ renderer' = [renderer EXCEPT !.frag_id_counter = r.counter]
    /\ pc' = "data"
    /\ UNCHANGED <<renderVars, slicerVars, file_text, bucket, idx, file_to_spans, sub_a,
                   data_list, match_htmls, page>>

\* renderer.data, data.append and match_htmls.append: the end of the loop body.
AppendData ==
    /\ pc = "data"
    /\ LET all_html_fragments == AllFragments(sub_a.files) \o AllFragments(sub_b.files)
           r == data(renderer, all_html_fragments, bucket[idx + 1].groups,
                     bucket[idx + 1].ignored_spans)
       IN  /\ data_list' = Append(data_list, r.data)
           /\ renderer' = r.renderer
    /\ match_htmls' = Append(match_htmls, [sub_a |-> sub_a, sub_b |-> sub_b])
    /\ idx' = idx + 1
    /\ pc' = "loop"
    /\ UNCHANGED <<renderVars, slicerVars, file_text, bucket, file_to_spans, sub_a, sub_b, page>>

ReturnPage ==
    /\ pc = "loop"
    /\ idx = Len(bucket)
    /\ page' = [matches |-> match_htmls, data |-> data_list]
    /\ pc' = "returned"
    /\ UNCHANGED <<renderVars, slicerVars, file_text, bucket, idx, renderer, file_to_spans,
                   sub_a, sub_b, data_list, match_htmls>>

NextTask == StartResult \/ HtmlSubmissionA \/ HtmlSubmissionB \/ AppendData \/ ReturnPage

SpecRenderer == InitRenderer /\ [][NextTask]_vars

SpecTask == InitTask /\ [][NextTask]_vars

\* ------------------------------------------------------------------------
\* render
\* ------------------------------------------------------------------------
S1 == "s1"
S2 == "s2"
S3 == "s3"
Pairs == {<<S1, S2>>, <<S1, S3>>, <<S2, S3>>}
Scores == {1, 2}
ResultsIn == {[sub_a |-> pr[1], sub_b |-> pr[2], score |-> sc] : pr \in Pairs, sc \in Scores}

InitRender ==
    /\ results_in \in SeqsUpTo(ResultsIn, MaxRenderResults)
    /\ sub_pair_to_results = <<>>
    /\ results_per_sub_pair = <<>>
    /\ tasks = <<>>
    /\ out_files = EmptyDict
    /\ writes = EmptyDict
    /\ write_log = <<>>
    /\ index_written = FALSE
    /\ pc = "group"
    /\ SlicerIdle
    /\ TaskIdle

GroupResults ==
    /\ pc = "group"
    /\ sub_pair_to_results' = GroupByPair(<<>>, results_in)
    /\ pc' = "sort"
    /\ UNCHANGED <<slicerVars, taskVars, results_in, results_per_sub_pair, tasks,
                   out_files, writes, write_log, index_written>>

SortBuckets ==
    /\ pc = "sort"
    /\ results_per_sub_pair' = SortedByScore(<<>>, DictValues(sub_pair_to_results))
    /\ pc' = "dispatch"
    /\ UNCHANGED <<slicerVars, taskVars, results_in, sub_pair_to_results, tasks,
                   out_files, writes, write_log, index_written>>

\* executor.map(_RenderTask(...), enumerate(results_per_sub_pair, 1))
Dispatch ==
    /\ pc = "dispatch"
    /\ tasks' = [k \in 1 .. Len(results_per_sub_pair) |->
                    [arg |-> Enumerate1(results_per_sub_pair)[k], st |-> "queued"]]
    /\ pc' = "map"
    /\ UNCHANGED <<slicerVars, taskVars, results_in, sub_pair_to_results,
                   results_per_sub_pair, out_files, writes, write_log, index_written>>

\* A worker takes a call.
TaskRun(k) ==
    /\ pc = "map"
    /\ tasks[k].st = "queued"
    /\ tasks' = [tasks EXCEPT ![k].st = "running"]
    /\ UNCHANGED <<pc, slicerVars, taskVars, results_in, sub_pair_to_results,
                   results_per_sub_pair, out_files, writes, write_log, index_written>>

\* _RenderTask.__call__ returns match_id and the page.
TaskReturn(k) ==
    /\ pc = "map"
    /\ tasks[k].st = "running"
    /\ tasks' = [tasks EXCEPT ![k].st = "returned"]
    /\ UNCHANGED <<pc, slicerVars, taskVars, results_in, sub_pair_to_results,
                   results_per_sub_pair, out_files, writes, write_log, index_written>>

\* _RenderTask.__call__ raises: a file of the bucket cannot be read.
TaskRaise(k) ==
    /\ pc = "map"
    /\ tasks[k].st = "running"
    /\ tasks' = [tasks EXCEPT ![k].st = "raised"]
    /\ UNCHANGED <<pc, slicerVars, taskVars, results_in, sub_pair_to_results,
                   results_per_sub_pair, out_files, writes, write_log, index_written>>

\* The body written with the file named by the number of pages written so far.
WriteMatch_byArrival(k) ==
    /\ pc = "map"
    /\ tasks[k].st = "returned"
    /\ LET id == Len(write_log) + 1
           html == RenderPage(tasks[k].arg[2])
       IN  /\ out_files' = (id :> html) @@ out_files
           /\ writes' = (id :> (IF id \in DOMAIN writes THEN writes[id] + 1 ELSE 1)) @@ writes
           /\ write_log' = Append(write_log, id)
    /\ tasks' = [tasks EXCEPT ![k].st = "consumed"]
    /\ UNCHANGED <<pc, slicerVars, taskVars, results_in, sub_pair_to_results,
                   results_per_sub_pair, index_written>>

\* Body of the loop over executor.map for a call that returned.
WriteMatch(k) ==
    /\ pc = "map"
    /\ tasks[k].st = "returned"
    /\ LET id == tasks[k].arg[1]
           html == RenderPage(tasks[k].arg[2])
       IN  /\ out_files' = (id :> html) @@ out_files
           /\ writes' = (id :> (IF id \in DOMAIN writes THEN writes[id] + 1 ELSE 1)) @@ writes
           /\ write_log' = Append(write_log, id)
    /\ tasks' = [tasks EXCEPT ![k].st = "consumed"]
    /\ UNCHANGED <<pc, slicerVars, taskVars, results_in, sub_pair_to_results,
                   results_per_sub_pair, index_written>>

\* The loop over executor.map reaches a call that raised: the exception
\* leaves render.
Abort(k) ==
    /\ pc = "map"
    /\ tasks[k].st = "raised"
    /\ pc' = "aborted"
    /\ UNCHANGED <<slicerVars, taskVars, renderVars>>

\* After the loop: the index is rendered and written, render returns.
WriteIndex ==
    /\ pc = "map"
    /\ \A k \in 1 .. Len(tasks) : tasks[k].st = "consumed"
    /\ index_written' = TRUE
    /\ pc' = "done"
    /\ UNCHANGED <<slicerVars, taskVars, results_in, sub_pair_to_results,
                   results_per_sub_pair, tasks, out_files, writes, write_log>>

NextRender ==
    \/ GroupResults
    \/ SortBuckets
    \/ Dispatch
    \/ \E k \in 1 .. Len(tasks) : TaskRun(k)
    \/ \E k \in 1 .. Len(tasks) : TaskReturn(k)
    \/ \E k \in 1 .. Len(tasks) : TaskRaise(k)
    \/ \E k \in 1 .. Len(tasks) : WriteMatch(k)
    \/ \E k \in 1 .. Len(tasks) : Abort(k)
    \/ WriteIndex

SpecRender == InitRender /\ [][NextRender]_vars

\* ------------------------------------------------------------------------
\* Properties
\* ------------------------------------------------------------------------
\* Text of a fragment: its lines joined.
FragText(frag) == Flatten(frag.content)

RECURSIVE JoinFragments(_)
JoinFragments(fs) == IF fs = <<>> THEN <<>> ELSE FragText(Head(fs)) \o JoinFragments(Tail(fs))

FragSpans(frag) == Range(frag.spans)

\* Spans of the input that cover offset o.
Covering(o) == {sp \in Range(spans) : sp.start <= o /\ o < sp.end}

\* C1: the fragments returned by slice, concatenated in order, are the file
\* text; their offset ranges are contiguous, do not overlap and cover
\* [0, len(text)); with no spans there is one fragment, the whole text,
\* with no spans.
C1_Partition ==
    pc = "done" =>
        /\ JoinFragments(fragments) = content
        /\ Len(fragments) >= 1
        /\ fragments[1].start_mark = 0
        /\ fragments[Len(fragments)].mark = Len(content)
        /\ \A i \in 1 .. Len(fragments) :
              /\ fragments[i].start_mark <= fragments[i].mark
              /\ Len(FragText(fragments[i])) = fragments[i].mark - fragments[i].start_mark
              /\ i > 1 => /\ fragments[i].start_mark = fragments[i - 1].mark
                          /\ fragments[i].start_mark < fragments[i].mark
        /\ spans = <<>> =>
              /\ Len(fragments) = 1
              /\ FragText(fragments[1]) = content
              /\ fragments[1].spans = <<>>

\* Two partially overlapping spans, text before the first: four fragments.
C1_Witness ==
    /\ pc = "done"
    /\ Len(fragments) = 4
    /\ fragments[Len(fragments)].mark = Len(content)
    /\ \E i, j \in 1 .. Len(spans) :
          spans[i].start < spans[j].start /\ spans[j].start < spans[i].end
          /\ spans[i].end < spans[j].end

\* C2: for every offset o of the text, the spans attached to the fragment
\* containing o are exactly the input spans with start <= o < end.
C2_ActiveSpans ==
    pc = "done" =>
        \A o \in 0 .. (Len(content) - 1) :
            /\ \E i \in 1 .. Len(fragments) :
                  fragments[i].start_mark <= o /\ o < fragments[i].mark
            /\ \A i \in 1 .. Len(fragments) :
                  (fragments[i].start_mark <= o /\ o < fragments[i].mark)
                      => FragSpans(fragments[i]) = Covering(o)

\* A zero-width span inside the text next to a wider span, sliced.
C2_Witness ==
    /\ pc = "done"
    /\ \E i, j \in 1 .. Len(spans) :
          /\ spans[i].start = spans[i].end /\ spans[i].start > 0
          /\ spans[j].start < spans[i].start /\ spans[i].start < spans[j].end
    /\ \E k \in 1 .. Len(fragments) : Cardinality(FragSpans(fragments[k])) = 1

\* Nested spans are both attached to the fragment they both cover.
C2_NestedWitness ==
    /\ pc = "done"
    /\ \E k \in 1 .. Len(fragments) : Cardinality(FragSpans(fragments[k])) = 2

\* C3: every fragment is a maximal run of constant active spans: no two
\* adjacent fragments carry the same span set.
C3_Maximal ==
    pc = "done" =>
        \A i \in 1 .. (Len(fragments) - 1) :
            FragSpans(fragments[i]) # FragSpans(fragments[i + 1])

\* C10: a malformed span is never silently accepted: when fragmentize returns,
\* no fragment lists a malformed span as active and no fragment's offset
\* range lies outside the text.
C10_MalformedRejected ==
    pc = "done" =>
        \A i \in 1 .. Len(fragments) :
            /\ \A sp \in FragSpans(fragments[i]) : IsValidSpan(sp, Len(content))
            /\ 0 <= fragments[i].start_mark
            /\ fragments[i].start_mark <= fragments[i].mark
            /\ fragments[i].mark <= Len(content)

\* Every HTML_Submission built so far, and every HTML_File in them.
BuiltSubmissions ==
    {match_htmls[i].sub_a : i \in 1 .. Len(match_htmls)}
        \cup {match_htmls[i].sub_b : i \in 1 .. Len(match_htmls)}

BuiltFiles == UNION {Range(sub.files) : sub \in BuiltSubmissions}

PercentageOk(obj) ==
    /\ obj.num_chars_matched <= obj.num_chars
    /\ 0 <= percentage(obj)
    /\ percentage(obj) <= 100
    /\ obj.num_chars = 0 => percentage(obj) = 0

\* C4: for every HTML_File and HTML_Submission built, num_chars_matched <=
\* num_chars, the percentage lies in 0..100 and is 0 when num_chars is 0.
C4_PercentageBound ==
    /\ \A sub \in BuiltSubmissions : PercentageOk(sub)
    /\ \A file \in BuiltFiles : PercentageOk(file)

\* A fragment that is ignored and grouped at once, a submission matched in
\* part, and a submission without any counted character.
C4_Witness ==
    /\ Len(match_htmls) = 1
    /\ \E file \in Range(match_htmls[1].sub_a.files) :
         \E i \in 1 .. Len(file.fragments) :
            file.fragments[i].is_ignored /\ file.fragments[i].is_grouped
    /\ percentage(match_htmls[1].sub_a) > 0
    /\ percentage(match_htmls[1].sub_a) < 100
    /\ match_htmls[1].sub_b.num_chars = 0
    /\ percentage(match_htmls[1].sub_b) = 0

GroupsOf(result, sp) == {i \in 1 .. Len(result.groups) : sp \in result.groups[i].spans}

SpanGroup(sp) == data_list[1].span_to_group[IdStore_get(renderer.span_id_store, sp)]

\* C8 as stated: span_to_group maps every span of every group to that group,
\* also when the span belongs to several groups.
C8_EveryGroupRecorded ==
    (idx = 1 /\ pc = "loop") =>
        \A i \in 1 .. Len(bucket[1].groups) :
            \A sp \in bucket[1].groups[i].spans :
                SpanGroup(sp) = IdStore_get(renderer.group_id_store, bucket[1].groups[i])

\* C8, amended: span_to_group maps every span of a group to the last group,
\* in the order the groups are passed, that holds the span; so to its group
\* when the span belongs to one group only.
C8_LastGroupRecorded ==
    (idx = 1 /\ pc = "loop") =>
        \A i \in 1 .. Len(bucket[1].groups) :
            \A sp \in bucket[1].groups[i].spans :
                LET last == CHOOSE j \in GroupsOf(bucket[1], sp) :
                                \A k \in GroupsOf(bucket[1], sp) : k <= j
                IN  SpanGroup(sp) = IdStore_get(renderer.group_id_store, bucket[1].groups[last])

\* data has run on two groups that share a span.
C8_Witness ==
    /\ idx = 1
    /\ pc = "loop"
    /\ \E i \in 1 .. Len(bucket[1].groups) :
          \E sp \in bucket[1].groups[i].spans :
             /\ Cardinality(GroupsOf(bucket[1], sp)) = 2
             /\ IdStore_get(renderer.span_id_store, sp) \in DOMAIN data_list[1].span_to_group

\* The fragments of a page, in the order they were produced.
PageFragments ==
    ConcatAll([i \in 1 .. Len(page.matches) |->
        AllFragments(page.matches[i].sub_a.files) \o AllFragments(page.matches[i].sub_b.files)])

\* C9: the fragments of one page carry the ids frag0, frag1, ... in the order
\* they were produced, so no two of them share an id.
C9_FreshIdsPerTask ==
    pc = "returned" =>
        \A i \in 1 .. Len(PageFragments) : PageFragments[i].id = frag_id(i - 1)

\* Position of the first result of a pair in the input.
FirstSeen(key) ==
    CHOOSE i \in 1 .. Len(results_in) :
        /\ <<results_in[i].sub_a, results_in[i].sub_b>> = key
        /\ \A j \in 1 .. (i - 1) : <<results_in[j].sub_a, results_in[j].sub_b>> # key

BucketKey(res) == <<res[1].sub_a, res[1].sub_b>>

BestScore(res) ==
    CHOOSE m \in {res[i].score : i \in 1 .. Len(res)} :
        \A i \in 1 .. Len(res) : res[i].score <= m

\* The results of a pair, in input order.
ResultsOfPair(key) ==
    SelectSeq(results_in, LAMBDA r : <<r.sub_a, r.sub_b>> = key)

\* One bucket per pair, holding the results of the pair in input order.
OneBucketPerPair ==
    /\ \A i, j \in 1 .. Len(results_per_sub_pair) :
          i # j => BucketKey(results_per_sub_pair[i]) # BucketKey(results_per_sub_pair[j])
    /\ \A i \in 1 .. Len(results_per_sub_pair) :
          results_per_sub_pair[i] = ResultsOfPair(BucketKey(results_per_sub_pair[i]))
    /\ \A i \in 1 .. Len(results_in) :
          \E j \in 1 .. Len(results_per_sub_pair) :
              BucketKey(results_per_sub_pair[j]) = <<results_in[i].sub_a, results_in[i].sub_b>>

Sorted == pc \in {"dispatch", "map", "done", "aborted"}

C5_TieWitness ==
    /\ Sorted
    /\ Len(results_per_sub_pair) >= 2
    /\ results_per_sub_pair[1][1].score = results_per_sub_pair[2][1].score

\* C6: every call carries the match id of its bucket's place in the sorted
\* order; in every interleaving match_<k>.html is written at most once and
\* holds the page of the k-th bucket, and when render returns every k has
\* been written exactly once.
C6_MatchIdDeterministic ==
    pc \in {"map", "done", "aborted"} =>
        /\ Len(tasks) = Len(results_per_sub_pair)
        /\ \A k \in 1 .. Len(tasks) : tasks[k].arg = <<k, results_per_sub_pair[k]>>
        /\ \A id \in DOMAIN out_files :
              /\ id \in 1 .. Len(results_per_sub_pair)
              /\ out_files[id] = RenderPage(results_per_sub_pair[id])
              /\ writes[id] = 1
        /\ pc = "done" => DOMAIN out_files = 1 .. Len(results_per_sub_pair)

\* render returned after writing the pages in an order other than 1, 2, ...
C6_Witness ==
    /\ pc = "done"
    /\ Len(write_log) >= 2
    /\ write_log[1] # 1

\* C7: when render is over, every bucket whose call returned a page has its
\* match page written, whatever happened to the other buckets.
C7_FailureIsolated ==
    pc \in {"done", "aborted"} =>
        \A k \in 1 .. Len(tasks) :
            tasks[k].st \in {"returned", "consumed"} => k \in DOMAIN out_files

====
